---------------------------- MODULE Spec2Model ----------------------------
(***************************************************************************)
(* Hamiltonian path/cycle search and TSP search of                         *)
(*   src/src/hamilton_cycle.py  (HamiltonCycleColoring)                     *)
(*   src/src/hamilton_tsp.py    (tsp_bruteforce, tsp_backtracking)          *)
(* as state machines.  One action is one step of a routine: one            *)
(* permutation of a brute-force loop, one entry/iteration/return of a      *)
(* depth-first recursion.                                                  *)
(*                                                                         *)
(* Python values: an Optional[list] is None == {} or Some(l) == {l};       *)
(* float('inf') is Inf; a dict {k: w} is a sequence of <<k, w>> pairs in   *)
(* insertion order (Python dicts iterate in insertion order); a set of     *)
(* small ints iterates in ascending order (CPython hashes a small int to   *)
(* itself), and none of the results checked here depends on that order.    *)
(***************************************************************************)
EXTENDS Integers, Sequences, FiniteSets, TLC

VARIABLES
    kind,                \* "ham" | "tsp": which pair of routines the driver runs
    vertices, edges,     \* the input of the current call
    pc,                  \* position of the driver / of the single-threaded routines
    adj_set,             \* hamilton_*: local adj_set
    iter, examined,      \* itertools.permutations iterator; permutations drawn so far
    found_path, found_cycle,              \* hamilton_bruteforce locals
    foundPath, foundCycle, largestCycle,  \* self.* of HamiltonCycleColoring
    path, visited, stack, starts,         \* hamilton_backtracking locals, call stack, for-loop
    adj_list, min_weight, best_cycle,     \* tsp_bruteforce locals
    min_weight_global, best_cycle_global, adj_list_global,
    num_vertices_global, start_node_global,   \* module globals of hamilton_tsp.py
    tpc, tin, tstack, tpath, tres,        \* per thread: tsp_backtracking invocation
    resBF, resBT,                         \* what the brute-force / backtracking call returned
    prev,                                 \* the previous call of a session: input and result
    bpc, bidx, badj_set, badj_list        \* adjacency builders run edge by edge

vars == <<kind, vertices, edges, pc, adj_set, iter, examined, found_path, found_cycle,
          foundPath, foundCycle, largestCycle, path, visited, stack, starts,
          adj_list, min_weight, best_cycle,
          min_weight_global, best_cycle_global, adj_list_global,
          num_vertices_global, start_node_global,
          tpc, tin, tstack, tpath, tres, resBF, resBT, prev,
          bpc, bidx, badj_set, badj_list>>

hamBFVars  == <<found_path, found_cycle>>
selfVars   == <<foundPath, foundCycle, largestCycle>>
hamBTVars  == <<path, visited, stack, starts>>
tspBFVars  == <<adj_list, min_weight, best_cycle>>
globalVars == <<min_weight_global, best_cycle_global, adj_list_global,
                num_vertices_global, start_node_global>>
threadVars == <<tpc, tin, tstack, tpath, tres>>
buildVars  == <<bpc, bidx, badj_set, badj_list>>
inputVars  == <<kind, vertices, edges, prev>>

---------------------------------------------------------------------------
(* Bounds of the model *)
MaxN     == 4     \* Hamiltonian search: graphs on 1..n, n <= MaxN
MaxNT    == 4     \* TSP search: instances on 1..n, n <= MaxNT
MaxW     == 1     \* edge weights 0 and MaxW
MaxNS    == 2     \* sequences of calls: instances on 1..n, n <= MaxNS
MaxNC    == 2     \* concurrent solves: instances on 1..n, n <= MaxNC
MaxEdges == 2     \* adjacency builders: edge lists of length <= MaxEdges
MaxNB    == 2     \* adjacency builders: vertex sets 1..n, n <= MaxNB

(* float('inf') *)
Inf == -1
Lt(a, b) == a # Inf /\ (b = Inf \/ a < b)
Ge(a, b) == ~Lt(a, b)

None == {}
Some(x) == {x}
Get(o) == CHOOSE x \in o : TRUE
(* truth value of an Optional[list]: None and [] are false *)
Truthy(o) == o # {} /\ Get(o) # <<>>

Range(s) == {s[i] : i \in DOMAIN s}
Last(s) == s[Len(s)]
Front(s) == SubSeq(s, 1, Len(s) - 1)
SetMax(S) == CHOOSE x \in S : \A y \in S : y <= x
SetMin(S) == CHOOSE x \in S : \A y \in S : x <= y

RECURSIVE SortedSeq(_)
SortedSeq(S) == IF S = {} THEN <<>> ELSE <<SetMin(S)>> \o SortedSeq(S \ {SetMin(S)})

(* iteration over a Python set of small ints *)
SetIter(S) == SortedSeq(S)

(* the lexicographic successor of the permutation p, None after the last *)
LexSuccessor(p) ==
    LET n == Len(p)
        I == {i \in 1..(n - 1) : p[i] < p[i + 1]}
    IN  IF I = {} THEN None
        ELSE LET i == SetMax(I)
                 j == SetMax({k \in (i + 1)..n : p[k] > p[i]})
                 s == [p EXCEPT ![i] = p[j], ![j] = p[i]]
             IN  Some([k \in 1..n |-> IF k <= i THEN s[k] ELSE s[n + i + 1 - k]])

(* mutant: the first element is never advanced *)
NextPermFixedHead(p) ==
    LET q == LexSuccessor(p)
    IN  IF q # None /\ Get(q)[1] # p[1] THEN None ELSE q

(* itertools.permutations over an ascending pool: the permutation drawn after p *)
NextPerm(p) == LexSuccessor(p)

---------------------------------------------------------------------------
(* GraphModel: the two adjacency builders *)

(* one iteration of the loop of _build_adj_set *)
adj_set_step(a, e) ==
    IF e[1] \in DOMAIN a /\ e[2] \in DOMAIN a
    THEN LET a1 == [a EXCEPT ![e[1]] = @ \cup {e[2]}]
         IN  [a1 EXCEPT ![e[2]] = @ \cup {e[1]}]
    ELSE a

RECURSIVE adj_set_fold(_, _)
adj_set_fold(a, es) == IF es = <<>> THEN a ELSE adj_set_fold(adj_set_step(a, Head(es)), Tail(es))

build_adj_set(V, es) == adj_set_fold([v \in V |-> {}], es)

(* dict operations on a sequence of <<key, value>> pairs *)
Keys(d) == {d[i][1] : i \in DOMAIN d}
Lookup(d, k) == d[CHOOSE i \in DOMAIN d : d[i][1] = k][2]
Put(d, k, w) ==
    IF k \in Keys(d)
    THEN [i \in DOMAIN d |-> IF d[i][1] = k THEN <<k, w>> ELSE d[i]]
    ELSE Append(d, <<k, w>>)

(* mutant: the guard of _build_adj_set, an edge with an unknown endpoint is skipped *)
adj_list_step_guarded(a, e) ==
    IF e[1] \in DOMAIN a /\ e[2] \in DOMAIN a
    THEN LET a1 == [a EXCEPT ![e[1]] = Put(@, e[2], e[3])]
         IN  [ok |-> TRUE, adj |-> [a1 EXCEPT ![e[2]] = Put(@, e[1], e[3])]]
    ELSE [ok |-> TRUE, adj |-> a]

(* one iteration of the loop of _build_adj_list: adj_list[u][v] = weight, then  *)
(* adj_list[v][u] = weight; adj_list[x] of an x that is no key raises KeyError, *)
(* the first assignment having been made when only v is unknown                 *)
adj_list_step(a, e) ==
    IF e[1] \notin DOMAIN a THEN [ok |-> FALSE, adj |-> a]
    ELSE LET a1 == [a EXCEPT ![e[1]] = Put(@, e[2], e[3])]
         IN  IF e[2] \notin DOMAIN a THEN [ok |-> FALSE, adj |-> a1]
             ELSE [ok |-> TRUE, adj |-> [a1 EXCEPT ![e[2]] = Put(@, e[1], e[3])]]

RECURSIVE adj_list_fold(_, _)
adj_list_fold(a, es) ==
    IF es = <<>> THEN [ok |-> TRUE, adj |-> a]
    ELSE LET r == adj_list_step(a, Head(es))
         IN  IF r.ok THEN adj_list_fold(r.adj, Tail(es)) ELSE r

build_adj_list(V, es) == adj_list_fold([v \in V |-> <<>>], es)

---------------------------------------------------------------------------
(* Results *)
NoRes == [st |-> "none"]
HamRes(pf, p, cf, c, l) ==
    [st |-> "ok", path_found |-> pf, path |-> p, cycle_found |-> cf, cycle |-> c, largest |-> l]
TspRes(w, c) == [st |-> "ok", min_weight |-> w, best_cycle |-> c]
Raised(e) == [st |-> e]


---------------------------------------------------------------------------
(* HamiltonCycleColoring.hamilton_bruteforce *)

(* lines 157-165: adjacency, locals, the permutation iterator over sorted(vertices) *)
HBF_Start ==
    /\ pc = "hbf_start"
    /\ adj_set' = build_adj_set(vertices, edges)
    /\ found_path' = None
    /\ found_cycle' = None
    /\ iter' = Some(SortedSeq(vertices))
    /\ examined' = 0
    /\ pc' = "hbf_loop"
    /\ UNCHANGED <<inputVars, selfVars, hamBTVars, tspBFVars, globalVars, threadVars,
                   resBF, resBT, buildVars>>

(* lines 166-171: every consecutive pair of p is adjacent *)
is_path(p, adj) == \A i \in 1..(Len(p) - 1) : p[i + 1] \in adj[p[i]]

(* mutant: every valid permutation replaces the recorded one *)
hbf_record_latest(fp, p) == Some(p)

(* lines 175-176: the first valid permutation is kept *)
hbf_record_path(fp, p) == IF ~Truthy(fp) THEN Some(p) ELSE fp

(* lines 165-182: one permutation of the for loop.  p[0] of the empty tuple *)
(* (zero vertices) raises IndexError.                                        *)
HBF_Perm ==
    /\ pc = "hbf_loop"
    /\ iter # None
    /\ LET p  == Get(iter)
           n  == Cardinality(vertices)
           fp == hbf_record_path(found_path, p)
       IN  /\ iter' = NextPerm(p)
           /\ examined' = examined + 1
           /\ IF ~is_path(p, adj_set)
              THEN UNCHANGED <<found_path, found_cycle, resBF, pc>>
              ELSE /\ found_path' = fp
                   /\ IF Len(p) = 0
                      THEN /\ resBF' = Raised("IndexError")
                           /\ pc' = "hbf_done"
                           /\ UNCHANGED found_cycle
                      ELSE IF p[1] \in adj_set[Last(p)]
                      THEN /\ found_cycle' = Some(Append(p, p[1]))
                           /\ resBF' = HamRes(TRUE, fp, TRUE, Some(Append(p, p[1])), n)
                           /\ pc' = "hbf_done"
                      ELSE UNCHANGED <<found_cycle, resBF, pc>>
    /\ UNCHANGED <<inputVars, adj_set, selfVars, hamBTVars, tspBFVars, globalVars,
                   threadVars, resBT, buildVars>>

(* lines 184-190: the loop ended without a cycle *)
HBF_End ==
    /\ pc = "hbf_loop"
    /\ iter = None
    /\ resBF' = IF Truthy(found_path) /\ ~Truthy(found_cycle)
                THEN HamRes(TRUE, found_path, FALSE, None, 0)
                ELSE HamRes(FALSE, None, FALSE, None, 0)
    /\ pc' = "hbf_done"
    /\ UNCHANGED <<inputVars, adj_set, iter, examined, hamBFVars, selfVars, hamBTVars,
                   tspBFVars, globalVars, threadVars, resBT, buildVars>>

---------------------------------------------------------------------------
(* HamiltonCycleColoring.hamilton_backtracking; a frame of findPath is     *)
(* [node, todo]: currentNode and what is left of `for neighbor in ...`      *)

Both == Truthy(foundPath) /\ Truthy(foundCycle)

(* lines 94-102 *)
HBT_Start ==
    /\ pc = "hbt_start"
    /\ adj_set' = build_adj_set(vertices, edges)
    /\ foundPath' = None
    /\ foundCycle' = None
    /\ largestCycle' = 0
    /\ path' = <<>>
    /\ visited' = {}
    /\ stack' = <<>>
    /\ starts' = SetIter(vertices)
    /\ pc' = "hbt_starts"
    /\ UNCHANGED <<inputVars, iter, examined, hamBFVars, tspBFVars, globalVars,
                   threadVars, resBF, resBT, buildVars>>

(* lines 133-137: the next start vertex, or the end of the loop *)
HBT_NextStart ==
    /\ pc = "hbt_starts"
    /\ IF starts # <<>> /\ ~Both
       THEN /\ stack' = <<[node |-> Head(starts), todo |-> <<>>]>>
            /\ starts' = Tail(starts)
            /\ pc' = "hbt_enter"
       ELSE /\ pc' = "hbt_ret"
            /\ UNCHANGED <<stack, starts>>
    /\ UNCHANGED <<inputVars, adj_set, iter, examined, hamBFVars, selfVars, path, visited,
                   tspBFVars, globalVars, threadVars, resBF, resBT, buildVars>>

(* mutant: no minimum cycle size *)
hbt_closes_any(p, adj) == p[1] \in adj[Last(p)]

(* line 108: a cycle closure, the path has 3 or more vertices and its first is *)
(* adjacent to its last                                                        *)
hbt_closes(p, adj) == Len(p) >= 3 /\ p[1] \in adj[Last(p)]

(* lines 105-118: findPath appends, marks, and records closure / full path *)
HBT_Enter ==
    /\ pc = "hbt_enter"
    /\ LET cur    == Last(stack).node
           n      == Cardinality(vertices)
           path1  == Append(path, cur)
           closes == hbt_closes(path1, adj_set)
           full   == Len(path1) = n
       IN  /\ path' = path1
           /\ visited' = visited \cup {cur}
           /\ largestCycle' = IF closes /\ Len(path1) > largestCycle
                              THEN Len(path1) ELSE largestCycle
           /\ foundCycle' = IF closes /\ full /\ ~Truthy(foundCycle)
                            THEN Some(Append(path1, path1[1])) ELSE foundCycle
           /\ foundPath' = IF full /\ ~Truthy(foundPath) THEN Some(path1) ELSE foundPath
    /\ pc' = "hbt_check"
    /\ UNCHANGED <<inputVars, adj_set, iter, examined, hamBFVars, stack, starts,
                   tspBFVars, globalVars, threadVars, resBF, resBT, buildVars>>

(* where a returning findPath resumes: the caller's loop, or the start loop *)
hbt_after_return == IF Len(stack) = 1 THEN "hbt_starts" ELSE "hbt_loop"

(* mutant: the early exit forgets path.pop() *)
hbt_early_exit_keep(p) == p

(* line 121: path.pop() of the early exit *)
hbt_early_exit_pop(p) == Front(p)

(* lines 120-125: early exit when both witnesses are set, else start the loop *)
HBT_Check ==
    /\ pc = "hbt_check"
    /\ IF Both
       THEN /\ path' = hbt_early_exit_pop(path)
            /\ visited' = visited \ {Last(stack).node}
            /\ stack' = Front(stack)
            /\ pc' = hbt_after_return
       ELSE /\ stack' = [stack EXCEPT ![Len(stack)].todo = SetIter(adj_set[Last(stack).node])]
            /\ pc' = "hbt_loop"
            /\ UNCHANGED <<path, visited>>
    /\ UNCHANGED <<inputVars, adj_set, iter, examined, hamBFVars, selfVars, starts,
                   tspBFVars, globalVars, threadVars, resBF, resBT, buildVars>>

(* lines 125-127: one neighbor of the loop *)
HBT_Iter ==
    /\ pc = "hbt_loop"
    /\ Last(stack).todo # <<>>
    /\ LET nb   == Head(Last(stack).todo)
           rest == [stack EXCEPT ![Len(stack)].todo = Tail(@)]
       IN  IF nb \notin visited
           THEN /\ stack' = Append(rest, [node |-> nb, todo |-> <<>>])
                /\ pc' = "hbt_enter"
           ELSE /\ stack' = rest
                /\ pc' = "hbt_loop"
    /\ UNCHANGED <<inputVars, adj_set, iter, examined, hamBFVars, selfVars, path, visited,
                   starts, tspBFVars, globalVars, threadVars, resBF, resBT, buildVars>>

(* lines 129-131: the loop is over, backtrack and return *)
HBT_Backtrack ==
    /\ pc = "hbt_loop"
    /\ Last(stack).todo = <<>>
    /\ path' = Front(path)
    /\ visited' = visited \ {Last(stack).node}
    /\ stack' = Front(stack)
    /\ pc' = hbt_after_return
    /\ UNCHANGED <<inputVars, adj_set, iter, examined, hamBFVars, selfVars, starts,
                   tspBFVars, globalVars, threadVars, resBF, resBT, buildVars>>

(* lines 139-145 *)
HBT_Return ==
    /\ pc = "hbt_ret"
    /\ resBT' = HamRes(Truthy(foundPath), foundPath, Truthy(foundCycle), foundCycle,
                       largestCycle)
    /\ pc' = "done"
    /\ UNCHANGED <<inputVars, adj_set, iter, examined, hamBFVars, selfVars, hamBTVars,
                   tspBFVars, globalVars, threadVars, resBF, buildVars>>

---------------------------------------------------------------------------
(* tsp_bruteforce *)

start_node == 1

(* lines 82-87; other_nodes are the vertices but start_node, permuted from line 89 on *)
TBF_Start ==
    /\ pc = "tbf_start"
    /\ LET r == build_adj_list(vertices, edges)
       IN  IF r.ok
           THEN /\ adj_list' = r.adj
                /\ iter' = Some(SetIter(vertices \ {start_node}))
                /\ min_weight' = Inf
                /\ best_cycle' = None
                /\ pc' = "tbf_loop"
                /\ UNCHANGED resBF
           ELSE /\ resBF' = Raised("KeyError")
                /\ pc' = "tbf_done"
                /\ UNCHANGED <<adj_list, iter, min_weight, best_cycle>>
    /\ examined' = 0
    /\ UNCHANGED <<inputVars, adj_set, hamBFVars, selfVars, hamBTVars, globalVars,
                   threadVars, resBT, buildVars>>

(* lines 94-100: walk from cur along rest, summing weights; adj[cur] of a cur that *)
(* is no key raises KeyError                                                       *)
RECURSIVE tbf_walk(_, _, _, _)
tbf_walk(adj, cur, w, rest) ==
    IF rest = <<>> THEN [st |-> "ok", weight |-> w, node |-> cur]
    ELSE IF cur \notin DOMAIN adj THEN [st |-> "KeyError", weight |-> w, node |-> cur]
    ELSE IF Head(rest) \in Keys(adj[cur])
         THEN tbf_walk(adj, Head(rest), w + Lookup(adj[cur], Head(rest)), Tail(rest))
         ELSE [st |-> "invalid", weight |-> w, node |-> cur]

(* lines 90-109: the weight of the tour start -> p -> start, if it is one *)
tbf_tour(adj, p) ==
    LET r == tbf_walk(adj, start_node, 0, p)
    IN  IF r.st # "ok" THEN r
        ELSE IF r.node \notin DOMAIN adj THEN [r EXCEPT !.st = "KeyError"]
        ELSE IF start_node \in Keys(adj[r.node])
             THEN [r EXCEPT !.weight = @ + Lookup(adj[r.node], start_node)]
             ELSE [r EXCEPT !.st = "invalid"]

(* lines 89-113: one permutation of the for loop *)
TBF_Perm ==
    /\ pc = "tbf_loop"
    /\ iter # None
    /\ LET p == Get(iter)
           r == tbf_tour(adj_list, p)
       IN  /\ iter' = NextPerm(p)
           /\ examined' = examined + 1
           /\ IF r.st = "KeyError"
              THEN /\ resBF' = Raised("KeyError")
                   /\ pc' = "tbf_done"
                   /\ UNCHANGED <<min_weight, best_cycle>>
              ELSE /\ IF r.st = "ok" /\ Lt(r.weight, min_weight)
                      THEN /\ min_weight' = r.weight
                           /\ best_cycle' = Some(<<start_node>> \o p \o <<start_node>>)
                      ELSE UNCHANGED <<min_weight, best_cycle>>
                   /\ UNCHANGED <<resBF, pc>>
    /\ UNCHANGED <<inputVars, adj_set, adj_list, hamBFVars, selfVars, hamBTVars,
                   globalVars, threadVars, resBT, buildVars>>

(* line 115 *)
TBF_End ==
    /\ pc = "tbf_loop"
    /\ iter = None
    /\ resBF' = TspRes(min_weight, best_cycle)
    /\ pc' = "tbf_done"
    /\ UNCHANGED <<inputVars, adj_set, iter, examined, hamBFVars, selfVars, hamBTVars,
                   tspBFVars, globalVars, threadVars, resBT, buildVars>>

---------------------------------------------------------------------------
(* tsp_backtracking, one invocation per thread t.  A frame of              *)
(* _tsp_backtracking_recursive is [node, weight, todo]: current_node,      *)
(* current_weight and what is left of `for neighbor, weight in ...items()`. *)
(* The globals are read and written where the code reads and writes them.  *)

Threads == {1, 2}

otherTVars == <<inputVars, pc, adj_set, iter, examined, hamBFVars, selfVars, hamBTVars,
                tspBFVars, resBF, resBT, buildVars>>

(* mutant: the best weight of the previous call is kept *)
tb_stale_min_weight == min_weight_global

(* line 166: the best weight a call starts from *)
tb_reset_min_weight == Inf

(* lines 160-171: reset the globals, call the recursion on [start_node_global] *)
TB_Call(t) ==
    /\ tpc[t] = "call"
    /\ LET r == build_adj_list(tin[t].vertices, tin[t].edges)
       IN  IF r.ok
           THEN /\ adj_list_global' = r.adj
                /\ num_vertices_global' = Cardinality(tin[t].vertices)
                /\ min_weight_global' = tb_reset_min_weight
                /\ best_cycle_global' = None
                /\ start_node_global' = 1
                /\ tstack' = [tstack EXCEPT ![t] = <<[node |-> 1, weight |-> 0, todo |-> <<>>]>>]
                /\ tpath' = [tpath EXCEPT ![t] = <<1>>]
                /\ tpc' = [tpc EXCEPT ![t] = "enter"]
                /\ UNCHANGED tres
           ELSE /\ tres' = [tres EXCEPT ![t] = Raised("KeyError")]
                /\ tpc' = [tpc EXCEPT ![t] = "done"]
                /\ UNCHANGED <<globalVars, tstack, tpath>>
    /\ UNCHANGED <<otherTVars, tin>>

(* mutant: prunes one unit of weight too early *)
tb_prune_eager(current_weight, best) == Ge(current_weight + 1, best)

(* line 131: the pruning test *)
tb_prune(current_weight, best) == Ge(current_weight, best)

(* a return of the recursion: back in the caller's loop after path.pop() (line 153), *)
(* or back in tsp_backtracking (line 173)                                            *)
tb_return(t) ==
    /\ tstack' = [tstack EXCEPT ![t] = Front(@)]
    /\ IF Len(tstack[t]) = 1
       THEN /\ tpc' = [tpc EXCEPT ![t] = "fin"]
            /\ UNCHANGED tpath
       ELSE /\ tpc' = [tpc EXCEPT ![t] = "loop"]
            /\ tpath' = [tpath EXCEPT ![t] = Front(@)]

(* a KeyError leaves the whole invocation *)
tb_raise(t) ==
    /\ tres' = [tres EXCEPT ![t] = Raised("KeyError")]
    /\ tpc' = [tpc EXCEPT ![t] = "done"]
    /\ UNCHANGED <<tstack, tpath>>

(* lines 131-145: pruning test, base case, or the start of the neighbor loop *)
TB_Enter(t) ==
    /\ tpc[t] = "enter"
    /\ LET f == Last(tstack[t])
       IN  IF tb_prune(f.weight, min_weight_global)
           THEN /\ tb_return(t)
                /\ UNCHANGED <<globalVars, tres>>
           ELSE IF f.node \notin DOMAIN adj_list_global
           THEN /\ tb_raise(t)
                /\ UNCHANGED globalVars
           ELSE IF Len(tpath[t]) = num_vertices_global
           THEN /\ LET final_weight == f.weight + Lookup(adj_list_global[f.node], start_node_global)
                   IN  IF /\ start_node_global \in Keys(adj_list_global[f.node])
                          /\ Lt(final_weight, min_weight_global)
                       THEN /\ min_weight_global' = final_weight
                            /\ best_cycle_global' = Some(Append(tpath[t], start_node_global))
                       ELSE UNCHANGED <<min_weight_global, best_cycle_global>>
                /\ tb_return(t)
                /\ UNCHANGED <<adj_list_global, num_vertices_global, start_node_global, tres>>
           ELSE /\ tstack' = [tstack EXCEPT ![t][Len(tstack[t])].todo = adj_list_global[f.node]]
                /\ tpc' = [tpc EXCEPT ![t] = "loop"]
                /\ UNCHANGED <<globalVars, tpath, tres>>
    /\ UNCHANGED <<otherTVars, tin>>

(* lines 145-152: one neighbor of the loop *)
TB_Iter(t) ==
    /\ tpc[t] = "loop"
    /\ Last(tstack[t]).todo # <<>>
    /\ LET f    == Last(tstack[t])
           nb   == Head(f.todo)
           rest == [tstack[t] EXCEPT ![Len(tstack[t])].todo = Tail(@)]
       IN  IF nb[1] \notin Range(tpath[t])
           THEN /\ tpath' = [tpath EXCEPT ![t] = Append(@, nb[1])]
                /\ tstack' = [tstack EXCEPT ![t] =
                                Append(rest, [node |-> nb[1], weight |-> f.weight + nb[2],
                                              todo |-> <<>>])]
                /\ tpc' = [tpc EXCEPT ![t] = "enter"]
           ELSE /\ tstack' = [tstack EXCEPT ![t] = rest]
                /\ UNCHANGED <<tpath, tpc>>
    /\ UNCHANGED <<otherTVars, globalVars, tin, tres>>

(* the end of the loop: the recursion returns *)
TB_LoopEnd(t) ==
    /\ tpc[t] = "loop"
    /\ Last(tstack[t]).todo = <<>>
    /\ tb_return(t)
    /\ UNCHANGED <<otherTVars, globalVars, tin, tres>>

(* line 173: return min_weight_global, best_cycle_global *)
TB_Finish(t) ==
    /\ tpc[t] = "fin"
    /\ tres' = [tres EXCEPT ![t] = TspRes(min_weight_global, best_cycle_global)]
    /\ tpc' = [tpc EXCEPT ![t] = "done"]
    /\ UNCHANGED <<otherTVars, globalVars, tin, tstack, tpath>>

---------------------------------------------------------------------------
(* Inputs: vertex sets 1..n; edge lists in the order of the input files     *)
(* (ascending), one entry per present pair                                  *)

Pairs(n) == {e \in (1..n) \X (1..n) : e[1] < e[2]}
PairLess(a, b) == a[1] < b[1] \/ (a[1] = b[1] /\ a[2] < b[2])

RECURSIVE PairsSeq(_)
PairsSeq(E) ==
    IF E = {} THEN <<>>
    ELSE LET m == CHOOSE x \in E : \A y \in E \ {x} : PairLess(x, y)
         IN  <<m>> \o PairsSeq(E \ {m})

Instance(V, es) == [vertices |-> V, edges |-> es]

HamInstances(N) ==
    UNION {{Instance(1..n, PairsSeq(E)) : E \in SUBSET Pairs(n)} : n \in 0..N}

Weights == {0, MaxW}
WeightedSeq(E, w) == LET ps == PairsSeq(E) IN [i \in DOMAIN ps |-> <<ps[i][1], ps[i][2], w[ps[i]]>>]
Reverse(q) == [i \in DOMAIN q |-> q[Len(q) + 1 - i]]
(* the edge list ascending or descending: the dicts' insertion order follows it *)
Orders(es) == {es, Reverse(es)}
TspGraphs(n) ==
    UNION {UNION {{Instance(1..n, es) : es \in Orders(WeightedSeq(E, w))}
                  : w \in [E -> Weights]} : E \in SUBSET Pairs(n)}
TspComplete(n) == UNION {{Instance(1..n, es) : es \in Orders(WeightedSeq(Pairs(n), w))}
                         : w \in [Pairs(n) -> Weights]}
(* every weighted graph on fewer than N vertices, every complete one on N *)
TspInstances(N) == UNION {TspGraphs(n) : n \in 0..(N - 1)} \cup TspComplete(N)

---------------------------------------------------------------------------
(* Initial values: nothing has run; the module globals as lines 119-123 set them *)

Idle ==
    /\ adj_set = <<>> /\ iter = None /\ examined = 0
    /\ found_path = None /\ found_cycle = None
    /\ foundPath = None /\ foundCycle = None /\ largestCycle = 0
    /\ path = <<>> /\ visited = {} /\ stack = <<>> /\ starts = <<>>
    /\ adj_list = <<>> /\ min_weight = Inf /\ best_cycle = None
    /\ min_weight_global = Inf /\ best_cycle_global = None /\ adj_list_global = <<>>
    /\ num_vertices_global = 0 /\ start_node_global = 1
    /\ tstack = [t \in Threads |-> <<>>] /\ tpath = [t \in Threads |-> <<>>]
    /\ tres = [t \in Threads |-> NoRes]
    /\ resBF = NoRes /\ resBT = NoRes
    /\ prev = [kind |-> "none"]

NoBuild == bpc = "off" /\ bidx = 0 /\ badj_set = <<>> /\ badj_list = <<>>

NoInput == Instance({}, <<>>)

---------------------------------------------------------------------------
(* Spec: one instance, solved by brute force and then by backtracking, as   *)
(* the driver of hamilton_tsp.py (lines 188-209) does for each graph        *)

Init ==
    /\ Idle /\ NoBuild
    /\ tpc = [t \in Threads |-> "idle"]
    /\ tin = [t \in Threads |-> NoInput]
    /\ \/ \E g \in HamInstances(MaxN) :
             kind = "ham" /\ vertices = g.vertices /\ edges = g.edges /\ pc = "hbf_start"
       \/ \E g \in TspInstances(MaxNT) :
             kind = "tsp" /\ vertices = g.vertices /\ edges = g.edges /\ pc = "tbf_start"

(* hamilton_bestcase, lines 196-199: the backtracking search on the same input *)
Run_hamilton_backtracking ==
    /\ pc = "hbf_done"
    /\ pc' = "hbt_start"
    /\ UNCHANGED <<inputVars, adj_set, iter, examined, hamBFVars, selfVars, hamBTVars,
                   tspBFVars, globalVars, threadVars, resBF, resBT, buildVars>>

(* hamilton_tsp.py line 209: tsp_backtracking(vertices, edges) *)
Run_tsp_backtracking ==
    /\ pc = "tbf_done"
    /\ pc' = "tbt"
    /\ tpc' = [tpc EXCEPT ![1] = "call"]
    /\ tin' = [tin EXCEPT ![1] = Instance(vertices, edges)]
    /\ UNCHANGED <<inputVars, adj_set, iter, examined, hamBFVars, selfVars, hamBTVars,
                   tspBFVars, globalVars, tstack, tpath, tres, resBF, resBT, buildVars>>

Next ==
    \/ HBF_Start \/ HBF_Perm \/ HBF_End
    \/ Run_hamilton_backtracking
    \/ HBT_Start \/ HBT_NextStart \/ HBT_Enter \/ HBT_Check \/ HBT_Iter
    \/ HBT_Backtrack \/ HBT_Return
    \/ TBF_Start \/ TBF_Perm \/ TBF_End
    \/ Run_tsp_backtracking
    \/ TB_Call(1) \/ TB_Enter(1) \/ TB_Iter(1) \/ TB_LoopEnd(1) \/ TB_Finish(1)

Spec == Init /\ [][Next]_vars

---------------------------------------------------------------------------
(* SpecSeq: a session of backtracking calls on one HamiltonCycleColoring    *)
(* object and one loaded hamilton_tsp module; self.* and the module globals *)
(* outlive each call                                                        *)

InitSeq ==
    /\ Idle /\ NoBuild
    /\ tpc = [t \in Threads |-> "idle"]
    /\ tin = [t \in Threads |-> NoInput]
    /\ kind = "none" /\ vertices = {} /\ edges = <<>> /\ pc = "idle"

NoCallRunning == pc \in {"idle", "done"} \/ (pc = "tbt" /\ tpc[1] = "done")

LastCall ==
    IF kind = "none" THEN prev
    ELSE [kind |-> kind, vertices |-> vertices, edges |-> edges,
          res |-> IF kind = "ham" THEN resBT ELSE tres[1]]

(* a caller invokes hamilton_backtracking(vertices, edges), line 86 *)
Call_hamilton_backtracking ==
    /\ NoCallRunning
    /\ \E g \in HamInstances(MaxNS) : vertices' = g.vertices /\ edges' = g.edges
    /\ kind' = "ham"
    /\ prev' = LastCall
    /\ pc' = "hbt_start"
    /\ resBT' = NoRes
    /\ UNCHANGED <<adj_set, iter, examined, hamBFVars, selfVars, hamBTVars, tspBFVars,
                   globalVars, threadVars, resBF, buildVars>>

(* a caller invokes tsp_backtracking(vertices, edges), line 155 *)
Call_tsp_backtracking ==
    /\ NoCallRunning
    /\ \E g \in UNION {TspGraphs(n) : n \in 0..MaxNS} :
          /\ vertices' = g.vertices /\ edges' = g.edges
          /\ tin' = [tin EXCEPT ![1] = g]
    /\ kind' = "tsp"
    /\ prev' = LastCall
    /\ pc' = "tbt"
    /\ tpc' = [tpc EXCEPT ![1] = "call"]
    /\ tres' = [tres EXCEPT ![1] = NoRes]
    /\ UNCHANGED <<adj_set, iter, examined, hamBFVars, selfVars, hamBTVars, tspBFVars,
                   globalVars, tstack, tpath, resBF, resBT, buildVars>>

NextSeq ==
    \/ Call_hamilton_backtracking
    \/ HBT_Start \/ HBT_NextStart \/ HBT_Enter \/ HBT_Check \/ HBT_Iter
    \/ HBT_Backtrack \/ HBT_Return
    \/ Call_tsp_backtracking
    \/ TB_Call(1) \/ TB_Enter(1) \/ TB_Iter(1) \/ TB_LoopEnd(1) \/ TB_Finish(1)

SpecSeq == InitSeq /\ [][NextSeq]_vars

---------------------------------------------------------------------------
(* SpecConc: two threads, each inside tsp_backtracking on its own instance; *)
(* the interpreter may switch threads between any two steps                 *)

ValidTsp(N) == UNION {TspGraphs(n) : n \in 1..N}

InitConc ==
    /\ Idle /\ NoBuild
    /\ kind = "tsp" /\ vertices = {} /\ edges = <<>> /\ pc = "conc"
    /\ tin \in [Threads -> ValidTsp(MaxNC)]
    /\ tpc = [t \in Threads |-> "call"]

NextConc ==
    \E t \in Threads :
        TB_Call(t) \/ TB_Enter(t) \/ TB_Iter(t) \/ TB_LoopEnd(t) \/ TB_Finish(t)

SpecConc == InitConc /\ [][NextConc]_vars

---------------------------------------------------------------------------
(* SpecBuild: _build_adj_set and then _build_adj_list on one vertex set and *)
(* one edge list, an edge per step; the edges may name a vertex outside the *)
(* set, may repeat and may be loops                                         *)

RECURSIVE SeqsUpTo(_, _)
SeqsUpTo(S, k) ==
    IF k = 0 THEN {<<>>}
    ELSE LET shorter == SeqsUpTo(S, k - 1)
         IN  shorter \cup {Append(q, x) : q \in shorter, x \in S}

BuildEdges == (1..(MaxNB + 1)) \X (1..(MaxNB + 1)) \X Weights

InitBuild ==
    /\ Idle /\ NoBuild
    /\ tpc = [t \in Threads |-> "idle"]
    /\ tin = [t \in Threads |-> NoInput]
    /\ kind = "build" /\ pc = "build"
    /\ \E n \in 0..MaxNB : vertices = 1..n
    /\ edges \in SeqsUpTo(BuildEdges, MaxEdges)

otherBVars == <<inputVars, pc, adj_set, iter, examined, hamBFVars, selfVars, hamBTVars,
                tspBFVars, globalVars, threadVars, resBF, resBT>>

(* hamilton_cycle.py line 78 *)
BuildSet_Start ==
    /\ bpc = "off"
    /\ badj_set' = [v \in vertices |-> {}]
    /\ bidx' = 0
    /\ bpc' = "set"
    /\ UNCHANGED <<otherBVars, badj_list>>

(* hamilton_cycle.py lines 80-83: the next (u, v) of the edge list. The     *)
(* unweighted builder is given the endpoints of each entry of edges; the    *)
(* weight, which only the weighted builder takes, is left out.              *)
BuildSet_Edge ==
    /\ bpc = "set"
    /\ bidx < Len(edges)
    /\ badj_set' = adj_set_step(badj_set, edges[bidx + 1])
    /\ bidx' = bidx + 1
    /\ UNCHANGED <<otherBVars, bpc, badj_list>>

(* hamilton_cycle.py line 84; then hamilton_tsp.py line 69 *)
BuildList_Start ==
    /\ bpc = "set"
    /\ bidx = Len(edges)
    /\ badj_list' = [v \in vertices |-> <<>>]
    /\ bidx' = 0
    /\ bpc' = "list"
    /\ UNCHANGED <<otherBVars, badj_set>>

(* hamilton_tsp.py lines 70-72: the next (u, v, weight) of the edge list *)
BuildList_Edge ==
    /\ bpc = "list"
    /\ bidx < Len(edges)
    /\ LET r == adj_list_step(badj_list, edges[bidx + 1])
       IN  /\ badj_list' = r.adj
           /\ IF r.ok THEN bidx' = bidx + 1 /\ UNCHANGED bpc
                      ELSE bpc' = "KeyError" /\ UNCHANGED bidx
    /\ UNCHANGED <<otherBVars, badj_set>>

(* hamilton_tsp.py line 73 *)
BuildList_Return ==
    /\ bpc = "list"
    /\ bidx = Len(edges)
    /\ bpc' = "built"
    /\ UNCHANGED <<otherBVars, bidx, badj_set, badj_list>>

NextBuild ==
    \/ BuildSet_Start \/ BuildSet_Edge
    \/ BuildList_Start \/ BuildList_Edge \/ BuildList_Return

SpecBuild == InitBuild /\ [][NextBuild]_vars

---------------------------------------------------------------------------
(* What the inputs mean, read off the vertex set and the edge list alone    *)

NumV == Cardinality(vertices)

Adjacent(V, es, u, v) ==
    /\ u \in V /\ v \in V
    /\ \E i \in DOMAIN es : {es[i][1], es[i][2]} = {u, v}

(* the sequences of k distinct elements of V *)
RECURSIVE InjSeqs(_, _)
InjSeqs(V, k) ==
    IF k = 0 THEN {<<>>}
    ELSE UNION {{Append(p, x) : x \in V \ Range(p)} : p \in InjSeqs(V, k - 1)}
Perms(V) == InjSeqs(V, Cardinality(V))

ValidPath(V, es, p) == \A i \in 1..(Len(p) - 1) : Adjacent(V, es, p[i], p[i + 1])
Closes(V, es, p) == p # <<>> /\ Adjacent(V, es, Last(p), p[1])

HamPaths(V, es)  == {p \in Perms(V) : ValidPath(V, es, p)}
HamCycles(V, es) == {p \in HamPaths(V, es) : Closes(V, es, p)}

LexLess(p, q) == \E i \in DOMAIN p : p[i] < q[i] /\ \A j \in 1..(i - 1) : p[j] = q[j]
LexFirst(S) == CHOOSE p \in S : \A q \in S \ {p} : LexLess(p, q)

(* the length of a longest cycle (3 or more vertices) of the graph, 0 if there is none *)
CycleLens(V, es) ==
    {k \in 3..Cardinality(V) :
        \E p \in InjSeqs(V, k) : ValidPath(V, es, p) /\ Closes(V, es, p)}
LongestCycle(V, es) == IF CycleLens(V, es) = {} THEN 0 ELSE SetMax(CycleLens(V, es))

RECURSIVE Fact(_)
Fact(k) == IF k <= 0 THEN 1 ELSE k * Fact(k - 1)

(* the weight of the undirected edge u-v: the last entry of the list that names it *)
EdgeWeight(es, u, v) ==
    es[SetMax({i \in DOMAIN es : {es[i][1], es[i][2]} = {u, v}})][3]

RECURSIVE WalkWeight(_, _)
WalkWeight(es, q) ==
    IF Len(q) < 2 THEN 0 ELSE EdgeWeight(es, q[1], q[2]) + WalkWeight(es, Tail(q))

Tours(V, es) ==
    {q \in {<<1>> \o p \o <<1>> : p \in Perms(V \ {1})} : ValidPath(V, es, q)}
OptWeight(V, es) ==
    IF Tours(V, es) = {} THEN Inf
    ELSE SetMin({WalkWeight(es, q) : q \in Tours(V, es)})

HamDone == kind = "ham" /\ resBF.st = "ok" /\ resBT.st = "ok"
TspDone == kind = "tsp" /\ resBF.st # "none" /\ tres[1].st # "none"

---------------------------------------------------------------------------
(* C1: whenever hamilton_bruteforce and hamilton_backtracking have both     *)
(* returned on the same simple graph, their path_found values are equal and *)
(* their cycle_found values are equal.                                      *)
C1_SameExistence ==
    HamDone => /\ resBF.path_found = resBT.path_found
               /\ resBF.cycle_found = resBT.cycle_found

(* C2: on every instance whose vertex set contains vertex 1, tsp_bruteforce  *)
(* and tsp_backtracking both return, with the same minimum weight, which is  *)
(* the least weight of a valid tour 1 -> permutation -> 1, and +infinity     *)
(* exactly when there is no valid tour.                                      *)
C2_SameOptimum ==
    (TspDone /\ 1 \in vertices) =>
        /\ resBF.st = "ok" /\ tres[1].st = "ok"
        /\ resBF.min_weight = tres[1].min_weight
        /\ tres[1].min_weight = OptWeight(vertices, edges)
        /\ \A q \in Tours(vertices, edges) :
              ~Lt(WalkWeight(edges, q), tres[1].min_weight)
        /\ (tres[1].min_weight = Inf) <=> (Tours(vertices, edges) = {})

(* both returned a finite optimum and a valid tour is strictly heavier *)
C2_Witness ==
    /\ TspDone /\ 1 \in vertices /\ tres[1].st = "ok" /\ tres[1].min_weight # Inf
    /\ \E q \in Tours(vertices, edges) : WalkWeight(edges, q) > tres[1].min_weight

(* C3: in hamilton_bruteforce the recorded witness path is, in every state   *)
(* of the loop and in the result, the lexicographically first permutation    *)
(* of the vertices that is a valid path (so it is never replaced by a later  *)
(* one); a reported cycle is the lexicographically first valid path whose    *)
(* last vertex is adjacent to its first, with the first vertex appended.     *)
C3_FirstWitness ==
    (kind = "ham" /\ pc \in {"hbf_loop", "hbf_done"} /\ NumV > 0) =>
        /\ found_path # None => found_path = Some(LexFirst(HamPaths(vertices, edges)))
        /\ resBF.st = "ok" =>
              /\ resBF.path = found_path
              /\ resBF.path_found <=> HamPaths(vertices, edges) # {}
              /\ resBF.cycle_found =>
                    LET c == LexFirst(HamCycles(vertices, edges))
                    IN  resBF.cycle = Some(Append(c, c[1]))

(* a cycle is reported, and the witness path is an earlier permutation than the cycle's *)
C3_Witness ==
    /\ kind = "ham" /\ resBF.st = "ok" /\ resBF.cycle_found
    /\ Get(resBF.path) # Front(Get(resBF.cycle))

(* C4, as claimed, for hamilton_backtracking: largest_cycle_len is 0 or n.   *)
C4_ZeroOrN ==
    (kind = "ham" /\ resBT.st = "ok") => resBT.largest \in {0, NumV}

(* C4, amended: hamilton_bruteforce returns largest_cycle_len n when it      *)
(* reports a cycle and 0 otherwise; hamilton_backtracking returns the length *)
(* of a longest cycle of the graph (3..n, 0 if there is none), which is n    *)
(* when it reports a cycle.                                                  *)
C4_LargestCycle ==
    /\ (kind = "ham" /\ resBF.st = "ok") =>
           resBF.largest = IF resBF.cycle_found THEN NumV ELSE 0
    /\ (kind = "ham" /\ resBT.st = "ok") =>
           /\ resBT.largest = LongestCycle(vertices, edges)
           /\ resBT.cycle_found => resBT.largest = NumV

(* backtracking returned a largest cycle that is neither 0 nor n *)
C4_Witness ==
    /\ kind = "ham" /\ resBT.st = "ok"
    /\ resBT.largest > 0 /\ resBT.largest < NumV

(* C5: on the empty vertex set every routine that has ended returned the     *)
(* degenerate result, (false, absent, false, absent, 0) or (+infinity,       *)
(* absent), and none has raised an error.                                    *)
C5_EmptyInput ==
    (vertices = {} /\ kind \in {"ham", "tsp"}) =>
        /\ kind = "ham" =>
              /\ resBF.st \in {"none", "ok"} /\ resBT.st \in {"none", "ok"}
              /\ resBF.st = "ok" => resBF = HamRes(FALSE, None, FALSE, None, 0)
              /\ resBT.st = "ok" => resBT = HamRes(FALSE, None, FALSE, None, 0)
        /\ kind = "tsp" =>
              /\ resBF.st \in {"none", "ok"} /\ tres[1].st \in {"none", "ok"}
              /\ resBF.st = "ok" => resBF = TspRes(Inf, None)
              /\ tres[1].st = "ok" => tres[1] = TspRes(Inf, None)

(* C6, as claimed: an edge naming a vertex outside the vertex set does not   *)
(* stop _build_adj_list; construction completes and a failure can only      *)
(* arise later.                                                             *)
BadEdge(e) == e[1] \notin vertices \/ e[2] \notin vertices
C6_ConstructionCompletes == kind = "build" => bpc # "KeyError"

(* C6, amended: _build_adj_list does not check endpoints, and the first edge *)
(* naming a vertex outside the set raises KeyError inside the builder, after *)
(* u -> v has been inserted when only v is unknown; the builder returns only *)
(* when no edge names an unknown vertex, and then every neighbor is a        *)
(* declared vertex with the weight of the last edge naming the pair.         *)
(* _build_adj_set drops such edges and returns a symmetric adjacency over    *)
(* the declared vertices, u-v adjacent exactly when an edge names both.      *)
C6_Builders ==
    kind = "build" =>
        /\ bpc = "KeyError" =>
              LET e == edges[bidx + 1]
              IN  /\ BadEdge(e)
                  /\ \A i \in 1..bidx : ~BadEdge(edges[i])
                  /\ e[1] \in vertices => e[2] \in Keys(badj_list[e[1]])
        /\ bpc = "built" =>
              /\ \A i \in DOMAIN edges : ~BadEdge(edges[i])
              /\ DOMAIN badj_list = vertices
              /\ \A u \in vertices :
                    /\ Keys(badj_list[u]) = {v \in vertices : Adjacent(vertices, edges, u, v)}
                    /\ \A v \in Keys(badj_list[u]) :
                          Lookup(badj_list[u], v) = EdgeWeight(edges, u, v)
        /\ bpc \in {"list", "built", "KeyError"} =>
              /\ DOMAIN badj_set = vertices
              /\ \A u \in vertices :
                    badj_set[u] = {v \in vertices : Adjacent(vertices, edges, u, v)}

(* the weighted builder raised on an edge whose second endpoint is unknown, *)
(* after inserting it under the first; the unweighted builder dropped it    *)
C6_Witness ==
    /\ kind = "build" /\ bpc = "KeyError"
    /\ edges[bidx + 1][1] \in vertices /\ edges[bidx + 1][2] \notin vertices
    /\ edges[bidx + 1][2] \in Keys(badj_list[edges[bidx + 1][1]])
    /\ edges[bidx + 1][2] \notin badj_set[edges[bidx + 1][1]]

(* C7: each of two concurrent tsp_backtracking invocations returns what it  *)
(* returns when run alone: the optimum of its own instance and a tour of    *)
(* its own instance of that weight (absent when there is none).             *)
C7_Isolated ==
    \A t \in Threads :
        tpc[t] = "done" =>
            /\ tres[t].st = "ok"
            /\ tres[t].min_weight = OptWeight(tin[t].vertices, tin[t].edges)
            /\ (tres[t].best_cycle = None) <=> (tres[t].min_weight = Inf)
            /\ tres[t].best_cycle # None =>
                  /\ Get(tres[t].best_cycle) \in Tours(tin[t].vertices, tin[t].edges)
                  /\ WalkWeight(tin[t].edges, Get(tres[t].best_cycle)) = tres[t].min_weight

(* C8, as claimed, for graphs of 3 or more vertices and for TSP instances   *)
(* that contain vertex 1: hamilton_bruteforce has examined n! permutations  *)
(* when it ends, tsp_bruteforce (n-1)!.                                     *)
C8_AllPermutations ==
    /\ (kind = "ham" /\ resBF.st # "none" /\ NumV >= 3) => examined = Fact(NumV)
    /\ (kind = "tsp" /\ resBF.st # "none" /\ 1 \in vertices) => examined = Fact(NumV - 1)

(* C8, amended: hamilton_bruteforce stops at the first permutation that     *)
(* closes into a cycle, having examined that permutation and every earlier  *)
(* one, at most n!; it examines exactly n! when it reports no cycle.        *)
(* tsp_bruteforce on a vertex set containing vertex 1 examines exactly      *)
(* (n-1)!.                                                                  *)
C8_Counts ==
    /\ (kind = "ham" /\ resBF.st # "none") =>
          /\ examined <= Fact(NumV)
          /\ IF resBF.st = "ok" /\ resBF.cycle_found
             THEN LET c == Front(Get(resBF.cycle))
                  IN  examined = Cardinality({q \in Perms(vertices) : q = c \/ LexLess(q, c)})
             ELSE examined = Fact(NumV)
    /\ (kind = "tsp" /\ resBF.st # "none" /\ 1 \in vertices) => examined = Fact(NumV - 1)

(* brute force stopped at a cycle after more than one and fewer than n! permutations *)
C8_Witness ==
    /\ kind = "ham" /\ resBF.st = "ok" /\ resBF.cycle_found
    /\ examined > 1 /\ examined < Fact(NumV)

(* C9: in a session of backtracking calls, each call starts its search from *)
(* best weight +infinity, absent witnesses and largest cycle 0, and returns *)
(* the existence answers / the optimum that its input alone determines; a   *)
(* call on the same input as the previous call returns the same answers.    *)
SameAnswers(a, b) ==
    /\ a.st = b.st
    /\ (a.st = "ok" /\ kind = "ham") =>
          a.path_found = b.path_found /\ a.cycle_found = b.cycle_found
    /\ (a.st = "ok" /\ kind = "tsp") => a.min_weight = b.min_weight

C10_PathInvariant ==
    (kind = "ham" /\ pc \in {"hbt_starts", "hbt_enter", "hbt_check", "hbt_loop",
                             "hbt_ret", "done"}) =>
        /\ Len(path) <= NumV
        /\ \A i, j \in DOMAIN path : i < j => path[i] # path[j]
        /\ ValidPath(vertices, edges, path)
        /\ visited = Range(path)
        /\ Len(stack) = Len(path) + (IF pc = "hbt_enter" THEN 1 ELSE 0)
        /\ \A i \in DOMAIN path : path[i] = stack[i].node
        /\ pc \in {"hbt_starts", "hbt_ret", "done"} => path = <<>> /\ visited = {}

(* the search from a start vertex has come back through the early exits *)
C10_Witness ==
    /\ kind = "ham" /\ pc = "hbt_starts" /\ Both
    /\ NumV >= 3 /\ Len(starts) < NumV /\ path = <<>>

=============================================================================
